---- MODULE Spec2Model ----
(***************************************************************************)
(* Model of examples/slack_webhook_example.py: the SlackToKnowledgeAgent   *)
(* integrator (fetch_thread, send_to_knowledge_agent, ingest_thread,       *)
(* post_confirmation), the two Flask handlers (slack_events,               *)
(* slack_shortcuts) and the command-line entry point.                      *)
(*                                                                         *)
(* Python values are modelled as follows.  A dict is a function whose      *)
(* DOMAIN is the set of keys that are present, so that `k in d` is         *)
(* k \in DOMAIN d and d.get(k, default) is Get(d, k, default).  A scalar   *)
(* of a webhook body is Str(s) or PyNone (JSON null); a text is            *)
(* Str(<<c1, ..., cn>>), a sequence of one-character strings, so that      *)
(* str.lower() and the substring test are computed character by character. *)
(* Every request is handled by one handler instance r \in Req; a handler   *)
(* blocks at each outbound HTTP call, so each outbound call is one step.   *)
(***************************************************************************)
EXTENDS Bags, FiniteSets, Integers, Sequences, TLC

\* ---------------------------------------------------------------- bounds
NumReq == 3          \* handler instances (concurrent deliveries)
MaxReplies == 1      \* replies in the platform's thread, handler runs
MaxMsgs == 2         \* replies in the platform's thread, command-line runs

Req == 1..NumReq

\* ---------------------------------------------------------- Python values
PyNone == [none |-> TRUE]
Absent == [absent |-> TRUE]
Unset == [unset |-> TRUE]
Str(s) == [str |-> s]
EmptyDict == <<>>

\* d.get(k, default)
Get(d, k, default) == IF k \in DOMAIN d THEN d[k] ELSE default

\* bool(v) for a value that is None or a string
Truthy(v) == v # PyNone /\ v # Str("")

\* mutant: only None falls through to the second operand
PyOrNoneOnly(a, b) == IF a # PyNone THEN a ELSE b

\* a or b
PyOr(a, b) == IF Truthy(a) THEN a ELSE b

\* the dict holding the fields of rec that are not Absent
MkDict(rec) == [k \in {f \in DOMAIN rec : rec[f] # Absent} |-> rec[k]]

\* ------------------------------------------------------------------ texts
UpperCase == <<"A","B","C","D","E","F","G","H","I","J","K","L","M",
               "N","O","P","Q","R","S","T","U","V","W","X","Y","Z">>
LowerCase == <<"a","b","c","d","e","f","g","h","i","j","k","l","m",
               "n","o","p","q","r","s","t","u","v","w","x","y","z">>

LowerChar(c) ==
    IF \E i \in 1..Len(UpperCase) : UpperCase[i] = c
    THEN LowerCase[CHOOSE i \in 1..Len(UpperCase) : UpperCase[i] = c]
    ELSE c

\* str.lower()
Lower(s) == [i \in 1..Len(s) |-> LowerChar(s[i])]

\* `sub in s` for strings
Contains(s, sub) ==
    \E i \in 0..(Len(s) - Len(sub)) : SubSeq(s, i + 1, i + Len(sub)) = sub

KwIngest == <<"i","n","g","e","s","t">>
KwSave == <<"s","a","v","e">>

\* line 176: "ingest" in text or "save" in text
Triggers(text) == Contains(text, KwIngest) \/ Contains(text, KwSave)

TextPleaseIngest == <<"p","l","e","a","s","e"," ","i","n","g","e","s","t"," ","t","h","i","s">>
TextHelloThere == <<"h","e","l","l","o"," ","t","h","e","r","e">>
TextSAVE == <<"S","A","V","E">>
TextReIngested == <<"R","e","I","n","g","e","s","t","e","d">>
TextUnsaved == <<"u","n","s","a","v","e","d">>
TextNearMiss == <<"i","n","g","e","s"," ","s","a","v"," ","e">>
TextEmpty == <<>>

\* sample texts whose lowercase contains a keyword, and those whose does not
TriggerTexts == {TextPleaseIngest, TextSAVE, TextReIngested, TextUnsaved}
PlainTexts == {TextHelloThere, TextNearMiss, TextEmpty}

\* --------------------------------------------------------- request bodies
ThreadTsOpts == {Absent, PyNone, Str(""), Str("T1")}
TsOpts == {Absent, Str("T2")}
ChannelOpts == {Absent, Str("C1"), Str("C2")}
TypeOpts == {Absent, Str("app_mention"), Str("message")}
TextOpts == {Absent, PyNone} \cup {Str(t) : t \in TriggerTexts \cup PlainTexts}
ChallengeOpts == {Absent, Str("X")}

Events ==
    {MkDict([type |-> ty, channel |-> ch, thread_ts |-> tt, ts |-> ts, text |-> tx]) :
        ty \in TypeOpts, ch \in ChannelOpts, tt \in ThreadTsOpts, ts \in TsOpts, tx \in TextOpts}

EventBodies ==
    {MkDict([challenge |-> c, event |-> e]) : c \in ChallengeOpts, e \in Events \cup {Absent}}

EventRequests == {[endpoint |-> "events", json |-> d] : d \in EventBodies}

\* the text of a form field that is the JSON encoding of d
JsonText(d) == [json |-> d]
NotJson == Str("{not json")

ShortcutMessages ==
    {MkDict([thread_ts |-> tt, ts |-> ts]) : tt \in {Absent, Str(""), Str("T1")}, ts \in TsOpts}
ShortcutChannels == {EmptyDict} \cup {[id |-> c] : c \in {"C1", "C2"}}
ShortcutTypeOpts == {Absent, Str("shortcut"), Str("message_action")}

ShortcutData ==
    {MkDict([type |-> ty, message |-> m, channel |-> ch]) :
        ty \in ShortcutTypeOpts, m \in ShortcutMessages \cup {Absent},
        ch \in ShortcutChannels \cup {Absent}}

ShortcutForms ==
    {EmptyDict, [payload |-> Str("")], [payload |-> NotJson]}
        \cup {[payload |-> JsonText(d)] : d \in ShortcutData}

ShortcutRequests == {[endpoint |-> "shortcuts", form |-> f] : f \in ShortcutForms}

CliRequests ==
    {[endpoint |-> "cli", argv |-> <<"prog">>], [endpoint |-> "cli", argv |-> <<"prog", "C1">>]}
        \cup {[endpoint |-> "cli", argv |-> <<"prog", c, t>>] : c \in {"C1", "C2"}, t \in {"T1", "T2"}}

NoRequest == [endpoint |-> "none"]

\* ------------------------------------------------- the platform's thread
RawValue == [user |-> "U1", text |-> "hi", ts |-> "1.0", type |-> "bot_message"]
RawMsgs == {[k \in S |-> RawValue[k]] : S \in SUBSET DOMAIN RawValue}

RECURSIVE RawLists(_)
RawLists(n) ==
    IF n = 0 THEN {<<>>}
    ELSE RawLists(n - 1) \cup
         {Append(l, m) : l \in {x \in RawLists(n - 1) : Len(x) = n - 1}, m \in RawMsgs}

\* the JSON bodies the Knowledge Agent answers with
NonDict == [pylist |-> <<>>]
KaResults == {EmptyDict, [memories_added |-> 3]}

VARIABLES
    platform,      \* result["messages"] of conversations.replies
    request,       \* request[r]: the request handler r serves
    pc,            \* pc[r]: "idle", "recv", "fetch", "send", "confirm", "done"
    channel_id,    \* locals of the handler and of ingest_thread
    thread_ts,
    thread_data,
    result,
    response,      \* response[r]: what handler r answered
    calls,         \* calls[r]: outbound calls made by handler r, in order
    printed,       \* printed[r]: lines handler r wrote to standard output
    kaPosts        \* bag of <<channel_id, thread_ts>> POSTed to /api/query

vars == <<platform, request, pc, channel_id, thread_ts, thread_data, result,
          response, calls, printed, kaPosts>>

NoResponse == [pending |-> TRUE]

\* jsonify(body), status
Resp(status, body) == [status |-> status, body |-> body]
StatusOk == Resp(200, [status |-> "ok"])

\* an exception that no handler code catches: Flask answers 500, no JSON body
Unhandled(exc) == Resp(500, [html |-> exc])

\* ------------------------------------------------ SlackToKnowledgeAgent
\* lines 50-55: one raw message mapped to the forwarded shape
Message(msg) ==
    [user |-> Get(msg, "user", "unknown"),
     text |-> Get(msg, "text", ""),
     ts   |-> Get(msg, "ts", ""),
     type |-> Get(msg, "type", "message")]

\* mutant: the messages are collected in reverse order
fetch_thread_reversed(channel, ts, replies) ==
    [thread_ts  |-> ts,
     channel_id |-> channel,
     messages   |-> [i \in 1..Len(replies) |-> Message(replies[Len(replies) + 1 - i])]]

\* lines 48-61: the value fetch_thread returns when the API call succeeds
fetch_thread(channel, ts, replies) ==
    [thread_ts  |-> ts,
     channel_id |-> channel,
     messages   |-> [i \in 1..Len(replies) |-> Message(replies[i])]]

\* lines 80-84: {"question": ..., "intent": ..., **thread_data}
Payload(td) ==
    LET fixed == [question |-> "Ingest this thread", intent |-> "ingest"]
    IN  [k \in DOMAIN fixed \cup DOMAIN td |-> IF k \in DOMAIN td THEN td[k] ELSE fixed[k]]

\* --------------------------------------------------------------- handlers
\* lines 166-192 of slack_events: what the handler does with a body that
\* has no challenge
EventRoute(data) ==
    IF "event" \in DOMAIN data
    THEN LET event == data["event"] IN
         IF Get(event, "type", PyNone) = Str("app_mention")
         THEN LET channel == Get(event, "channel", PyNone)
                  thread  == PyOr(Get(event, "thread_ts", PyNone), Get(event, "ts", PyNone))
                  text    == Get(event, "text", Str(<<>>))
              IN  IF text = PyNone
                  THEN [branch |-> "raise", exc |-> "AttributeError"]
                  ELSE IF Triggers(Lower(text.str))
                       THEN [branch |-> "ingest", channel_id |-> channel, thread_ts |-> thread]
                       ELSE [branch |-> "ok"]
         ELSE [branch |-> "ok"]
    ELSE [branch |-> "ok"]

\* mutant: the event is processed before the challenge is looked at
EventsRouteEventFirst(data) ==
    IF "event" \in DOMAIN data /\ EventRoute(data).branch # "ok"
    THEN EventRoute(data)
    ELSE IF "challenge" \in DOMAIN data
         THEN [branch |-> "challenge", value |-> data["challenge"]]
         ELSE [branch |-> "ok"]

\* lines 159-192 of slack_events
EventsRoute(data) ==
    IF "challenge" \in DOMAIN data
    THEN [branch |-> "challenge", value |-> data["challenge"]]
    ELSE EventRoute(data)

\* mutant: only a missing payload is rejected, an empty one is parsed
NoPayloadMissingOnly(payload) == payload = PyNone

\* lines 202-203: `not payload`
NoPayload(payload) == ~Truthy(payload)

\* lines 202-229 of slack_shortcuts, up to the call of ingest_thread
ShortcutsRoute(form) ==
    LET payload == Get(form, "payload", PyNone) IN
    IF NoPayload(payload)
    THEN [branch |-> "nopayload"]
    ELSE IF "json" \notin DOMAIN payload
         THEN [branch |-> "raise", exc |-> "JSONDecodeError"]
         ELSE LET data == payload.json IN
              IF Get(data, "type", PyNone) = Str("shortcut")
              THEN LET message == Get(data, "message", EmptyDict) IN
                   IF "channel" \notin DOMAIN data \/ "id" \notin DOMAIN data["channel"]
                   THEN [branch |-> "raise", exc |-> "KeyError"]
                   ELSE [branch |-> "ingest",
                         channel_id |-> Str(data["channel"]["id"]),
                         thread_ts |-> PyOr(Get(message, "thread_ts", PyNone),
                                            Get(message, "ts", PyNone))]
              ELSE [branch |-> "ok"]

\* lines 188-189: the events handler's except clause
events_except(e) == StatusOk

\* mutant: the error text is returned without the 500 status
shortcuts_except_200(e) == Resp(200, [text |-> [fmt |-> "error", msg |-> e]])

\* mutant: the error is returned under the key of the 400 response
shortcuts_except_error_key(e) == Resp(500, [error |-> e])

\* lines 224-227: the shortcuts handler's except clause
shortcuts_except(e) == Resp(500, [text |-> [fmt |-> "error", msg |-> e]])

\* lines 220-222: the shortcuts handler's success response
shortcuts_saved(res) ==
    Resp(200, [text |-> [fmt |-> "saved", memories |-> Get(res, "memories_added", 0)]])

Finish(r, resp, lines) ==
    /\ response' = [response EXCEPT ![r] = resp]
    /\ pc' = [pc EXCEPT ![r] = "done"]
    /\ printed' = [printed EXCEPT ![r] = @ \o lines]

\* mutant: the events handler goes on to the confirmation after a failure
RaiseContinue(r, e, lines) ==
    CASE request[r].endpoint = "events" /\ pc[r] # "confirm" ->
            /\ pc' = [pc EXCEPT ![r] = "confirm"]
            /\ printed' = [printed EXCEPT ![r] = @ \o lines]
            /\ UNCHANGED response
      [] request[r].endpoint = "events" /\ pc[r] = "confirm" ->
            Finish(r, events_except(e), lines \o <<"Error processing thread">>)
      [] request[r].endpoint = "shortcuts" ->
            Finish(r, shortcuts_except(e), lines)
      [] request[r].endpoint = "cli" ->
            Finish(r, [exit |-> 1], lines \o <<"Error">>)

\* exception e leaves ingest_thread (or post_confirmation) and reaches the
\* except clause of the caller; lines were printed where it was raised
Raise(r, e, lines) ==
    CASE request[r].endpoint = "events" ->
            Finish(r, events_except(e), lines \o <<"Error processing thread">>)
      [] request[r].endpoint = "shortcuts" ->
            Finish(r, shortcuts_except(e), lines)
      [] request[r].endpoint = "cli" ->
            Finish(r, [exit |-> 1], lines \o <<"Error">>)

\* ingest_thread returns res to its caller (lines 112-113)
Return(r, res) ==
    CASE request[r].endpoint = "events" ->
            /\ pc' = [pc EXCEPT ![r] = "confirm"]
            /\ printed' = [printed EXCEPT ![r] = Append(@, "Success")]
            /\ UNCHANGED response
      [] request[r].endpoint = "shortcuts" ->
            Finish(r, shortcuts_saved(res), <<"Success">>)
      [] request[r].endpoint = "cli" ->
            Finish(r, [exit |-> 0], <<"Success", "Memories created">>)

\* the caller enters ingest_thread(channel, thread) (line 106)
Ingest(r, channel, thread) ==
    /\ channel_id' = [channel_id EXCEPT ![r] = channel]
    /\ thread_ts' = [thread_ts EXCEPT ![r] = thread]
    /\ pc' = [pc EXCEPT ![r] = "fetch"]
    /\ printed' = [printed EXCEPT ![r] = Append(@, "Fetching thread")]
    /\ UNCHANGED response

\* POST /slack/events, up to the first outbound call
SlackEvents(r) ==
    /\ pc[r] = "recv"
    /\ request[r].endpoint = "events"
    /\ LET route == EventsRoute(request[r].json) IN
       CASE route.branch = "challenge" ->
               Finish(r, Resp(200, [challenge |-> route.value]), <<>>)
                   /\ UNCHANGED <<channel_id, thread_ts>>
         [] route.branch = "ok" ->
               Finish(r, StatusOk, <<>>) /\ UNCHANGED <<channel_id, thread_ts>>
         [] route.branch = "raise" ->
               Finish(r, Unhandled(route.exc), <<>>) /\ UNCHANGED <<channel_id, thread_ts>>
         [] route.branch = "ingest" ->
               Ingest(r, route.channel_id, route.thread_ts)
    /\ UNCHANGED <<platform, request, thread_data, result, calls, kaPosts>>

\* POST /slack/shortcuts, up to the first outbound call
SlackShortcuts(r) ==
    /\ pc[r] = "recv"
    /\ request[r].endpoint = "shortcuts"
    /\ LET route == ShortcutsRoute(request[r].form) IN
       CASE route.branch = "nopayload" ->
               Finish(r, Resp(400, [error |-> "No payload"]), <<>>)
                   /\ UNCHANGED <<channel_id, thread_ts>>
         [] route.branch = "ok" ->
               Finish(r, StatusOk, <<>>) /\ UNCHANGED <<channel_id, thread_ts>>
         [] route.branch = "raise" ->
               Finish(r, Unhandled(route.exc), <<>>) /\ UNCHANGED <<channel_id, thread_ts>>
         [] route.branch = "ingest" ->
               Ingest(r, route.channel_id, route.thread_ts)
    /\ UNCHANGED <<platform, request, thread_data, result, calls, kaPosts>>

\* lines 236-261: the command-line entry point
Main(r) ==
    /\ pc[r] = "recv"
    /\ request[r].endpoint = "cli"
    /\ LET argv == request[r].argv IN
       IF Len(argv) > 2
       THEN Ingest(r, Str(argv[2]), Str(argv[3]))
       ELSE Finish(r, [serving |-> 3000], <<"Starting Flask server">>)
                /\ UNCHANGED <<channel_id, thread_ts>>
    /\ UNCHANGED <<platform, request, thread_data, result, calls, kaPosts>>

\* fetch_thread: the conversations.replies call and its mapping (lines 40-65)
FetchThread(r) ==
    /\ pc[r] = "fetch"
    /\ LET call(out) == [api |-> "conversations.replies", channel |-> channel_id[r],
                         ts |-> thread_ts[r], inclusive |-> TRUE, outcome |-> out]
       IN  \/ /\ calls' = [calls EXCEPT ![r] = Append(@, call("ok"))]
              /\ thread_data' = [thread_data EXCEPT ![r] =
                                    fetch_thread(channel_id[r], thread_ts[r], platform)]
              /\ pc' = [pc EXCEPT ![r] = "send"]
              /\ printed' = [printed EXCEPT ![r] = Append(@, "Sending messages")]
              /\ UNCHANGED response
           \/ /\ calls' = [calls EXCEPT ![r] = Append(@, call("SlackApiError"))]
              /\ Raise(r, "SlackApiError", <<"Error fetching thread">>)
              /\ UNCHANGED thread_data
    /\ UNCHANGED <<platform, request, channel_id, thread_ts, result, kaPosts>>

\* lines 80-87: the POST to {base}/api/query as the log records it
SendCall(r, out) ==
    [api |-> "api/query", json |-> Payload(thread_data[r]), timeout |-> 30, outcome |-> out]

\* lines 87-93 and 110-113: what the POST answers and what ingest_thread
\* does with it
SendOutcome(r) ==
    \/ \E res \in KaResults :
          /\ calls' = [calls EXCEPT ![r] = Append(@, SendCall(r, "ok"))]
          /\ result' = [result EXCEPT ![r] = res]
          /\ Return(r, res)
    \/ /\ calls' = [calls EXCEPT ![r] = Append(@, SendCall(r, "ok"))]
       /\ result' = [result EXCEPT ![r] = NonDict]
       /\ Raise(r, "AttributeError", <<>>)
    \/ \E e \in {"ConnectionError", "HTTPError"} :
          /\ calls' = [calls EXCEPT ![r] = Append(@, SendCall(r, e))]
          /\ Raise(r, e, <<"Error sending to Knowledge Agent">>)
          /\ UNCHANGED result

\* the key under which the Knowledge Agent sees a forwarded thread
ThreadKey(td) == <<td["channel_id"], td["thread_ts"]>>

\* mutant: a thread that was already forwarded is not forwarded again
SendDedup(r) ==
    /\ pc[r] = "send"
    /\ IF BagIn(ThreadKey(thread_data[r]), kaPosts)
       THEN /\ result' = [result EXCEPT ![r] = EmptyDict]
            /\ Return(r, EmptyDict)
            /\ UNCHANGED <<calls, kaPosts>>
       ELSE /\ kaPosts' = kaPosts (+) SetToBag({ThreadKey(thread_data[r])})
            /\ SendOutcome(r)
    /\ UNCHANGED <<platform, request, channel_id, thread_ts, thread_data>>

\* send_to_knowledge_agent and the rest of ingest_thread (lines 77-93, 110-113)
SendToKnowledgeAgent(r) ==
    /\ pc[r] = "send"
    /\ kaPosts' = kaPosts (+) SetToBag({ThreadKey(Payload(thread_data[r]))})
    /\ SendOutcome(r)
    /\ UNCHANGED <<platform, request, channel_id, thread_ts, thread_data>>

\* post_confirmation, called by slack_events (lines 124-131, 182-186)
PostConfirmation(r) ==
    /\ pc[r] = "confirm"
    /\ LET call(out) == [api |-> "chat.postMessage", channel |-> channel_id[r],
                         thread_ts |-> thread_ts[r],
                         memories |-> Get(result[r], "memories_added", 0), outcome |-> out]
       IN  \/ /\ calls' = [calls EXCEPT ![r] = Append(@, call("ok"))]
              /\ Finish(r, StatusOk, <<>>)
           \/ /\ calls' = [calls EXCEPT ![r] = Append(@, call("SlackApiError"))]
              /\ Finish(r, StatusOk, <<"Error posting confirmation">>)
           \/ /\ calls' = [calls EXCEPT ![r] = Append(@, call("ConnectionError"))]
              /\ Raise(r, "ConnectionError", <<>>)
    /\ UNCHANGED <<platform, request, channel_id, thread_ts, thread_data, result, kaPosts>>

\* --------------------------------------------------------- specifications
\* the state before any handler has run
Start ==
    /\ pc = [r \in Req |-> IF request[r] = NoRequest THEN "idle" ELSE "recv"]
    /\ channel_id = [r \in Req |-> Unset]
    /\ thread_ts = [r \in Req |-> Unset]
    /\ thread_data = [r \in Req |-> Unset]
    /\ result = [r \in Req |-> Unset]
    /\ response = [r \in Req |-> NoResponse]
    /\ calls = [r \in Req |-> <<>>]
    /\ printed = [r \in Req |-> <<>>]
    /\ kaPosts = EmptyBag

\* the server handles one webhook request of either endpoint
Init ==
    /\ platform \in RawLists(MaxReplies)
    /\ \E q \in EventRequests \cup ShortcutRequests :
          request = [r \in Req |-> IF r = 1 THEN q ELSE NoRequest]
    /\ Start

Next ==
    \E r \in Req :
        \/ SlackEvents(r)
        \/ SlackShortcuts(r)
        \/ FetchThread(r)
        \/ SendToKnowledgeAgent(r)
        \/ PostConfirmation(r)

Spec == Init /\ [][Next]_vars

\* k deliveries of one app_mention event are handled at the same time
DupEvents ==
    {MkDict([type |-> Str("app_mention"), channel |-> Str("C1"), thread_ts |-> tt,
             ts |-> Str("T2"), text |-> Str(tx)]) :
        tt \in {Absent, Str("T1")}, tx \in {TextPleaseIngest, TextHelloThere}}

\* the thread the platform holds while the duplicates are handled
DupThread == <<RawValue, [text |-> "hi", ts |-> "1.0"]>>

DupRequests == {[endpoint |-> "events", json |-> [event |-> e]] : e \in DupEvents}

InitDup ==
    /\ platform = DupThread
    /\ \E k \in Req, q \in DupRequests :
          request = [r \in Req |-> IF r <= k THEN q ELSE NoRequest]
    /\ Start

NextDup ==
    \E r \in Req :
        \/ SlackEvents(r)
        \/ FetchThread(r)
        \/ SendToKnowledgeAgent(r)
        \/ PostConfirmation(r)

SpecDup == InitDup /\ [][NextDup]_vars

\* the script is run from the command line
InitCli ==
    /\ platform \in RawLists(MaxMsgs)
    /\ \E q \in CliRequests :
          request = [r \in Req |-> IF r = 1 THEN q ELSE NoRequest]
    /\ Start

NextCli ==
    \E r \in Req :
        \/ Main(r)
        \/ FetchThread(r)
        \/ SendToKnowledgeAgent(r)

SpecCli == InitCli /\ [][NextCli]_vars

\* ------------------------------------------------------------ properties
IsEvents(r) == request[r].endpoint = "events"
IsShortcuts(r) == request[r].endpoint = "shortcuts"
Done(r) == pc[r] = "done"
Active == {r \in Req : request[r] # NoRequest}

\* positions in the call log of handler r of the calls to api
CallsTo(r, api) == {i \in 1..Len(calls[r]) : calls[r][i].api = api}

\* the body holds an app_mention event whose text, lowercased, contains
\* "ingest" or "save" (the texts are classified by hand in TriggerTexts)
TriggeringEvent(d) ==
    /\ "event" \in DOMAIN d
    /\ "type" \in DOMAIN d["event"]
    /\ d["event"]["type"] = Str("app_mention")
    /\ "text" \in DOMAIN d["event"]
    /\ d["event"]["text"] \in {Str(t) : t \in TriggerTexts}

\* an event delivery: a body that is not the URL-verification handshake
EventDelivery(r) == IsEvents(r) /\ "challenge" \notin DOMAIN request[r].json

\* the event's thread_ts, or its ts when thread_ts is absent, null or empty
ExpectedThread(e) ==
    IF "thread_ts" \in DOMAIN e /\ e["thread_ts"] \notin {PyNone, Str("")}
    THEN e["thread_ts"]
    ELSE IF "ts" \in DOMAIN e THEN e["ts"] ELSE PyNone

ExpectedChannel(e) == IF "channel" \in DOMAIN e THEN e["channel"] ELSE PyNone

\* C1 (as claimed): every request to the events endpoint whose body has no
\* challenge field is answered with HTTP 200 {status: "ok"}, whatever the
\* event's fields are (present, absent or null) and whatever the outbound
\* calls do.
C1_EventsAlwaysOk ==
    \A r \in Req : (EventDelivery(r) /\ Done(r)) => response[r] = StatusOk

\* C2: a delivered app_mention event whose lowercased text contains "ingest"
\* or "save" causes exactly one thread-fetch call, with the event's channel
\* and its thread_ts (its ts when thread_ts is absent or empty), and, when
\* the fetch succeeds, exactly one forward call whose body carries the same
\* channel_id and thread_ts; no call is repeated.
C2_OneFetchOneForward ==
    \A r \in Req :
        (EventDelivery(r) /\ TriggeringEvent(request[r].json)) =>
            LET e == request[r].json["event"]
                c == calls[r]
                fetches == CallsTo(r, "conversations.replies")
                forwards == CallsTo(r, "api/query")
            IN  /\ Cardinality(fetches) <= 1
                /\ Cardinality(forwards) <= 1
                /\ pc[r] \notin {"recv", "fetch"} =>
                      /\ fetches = {1}
                      /\ c[1].channel = ExpectedChannel(e)
                      /\ c[1].ts = ExpectedThread(e)
                /\ (pc[r] \in {"confirm", "done"} /\ c[1].outcome = "ok") =>
                      /\ forwards = {2}
                      /\ c[2].json["channel_id"] = ExpectedChannel(e)
                      /\ c[2].json["thread_ts"] = ExpectedThread(e)
                /\ (Done(r) /\ c[1].outcome # "ok") => forwards = {}

\* witness of C2: a triggering delivery with an empty thread_ts and a ts was
\* fetched and forwarded
C2_Witness ==
    \E r \in Req :
        /\ EventDelivery(r) /\ TriggeringEvent(request[r].json) /\ Done(r)
        /\ "thread_ts" \in DOMAIN request[r].json["event"]
        /\ request[r].json["event"]["thread_ts"] = Str("")
        /\ "ts" \in DOMAIN request[r].json["event"]
        /\ CallsTo(r, "api/query") = {2}

\* C3: a body with a challenge field X (also one that holds a triggering
\* event) is answered with exactly {challenge: X} and causes no thread-fetch,
\* forward or confirmation call.
C3_ChallengeEchoed ==
    \A r \in Req :
        (IsEvents(r) /\ "challenge" \in DOMAIN request[r].json) =>
            /\ calls[r] = <<>>
            /\ kaPosts = EmptyBag
            /\ pc[r] \in {"recv", "done"}
            /\ Done(r) => response[r] = Resp(200, [challenge |-> request[r].json["challenge"]])

\* witness of C3: a body with a challenge and a triggering event was answered
C3_Witness ==
    \E r \in Req :
        /\ IsEvents(r) /\ Done(r)
        /\ "challenge" \in DOMAIN request[r].json
        /\ TriggeringEvent(request[r].json)

\* C4 (as claimed): the events endpoint makes an outbound call only for an
\* app_mention event whose lowercased text contains "ingest" or "save"; for
\* every delivered app_mention event whose text contains neither keyword, and
\* every event of another type, it makes no call and answers {status: "ok"}.
C4_CallsOnlyWhenTriggered ==
    \A r \in Req :
        IsEvents(r) =>
            /\ calls[r] # <<>> => TriggeringEvent(request[r].json)
            /\ (EventDelivery(r) /\ "event" \in DOMAIN request[r].json
                    /\ ~TriggeringEvent(request[r].json) /\ Done(r)) =>
                  (calls[r] = <<>> /\ response[r] = StatusOk)

\* the exception with which the pipeline of handler r ended, read off the
\* call log: the failed call, or the AttributeError of line 112 on an answer
\* that is not a JSON object
PipelineExc(r) ==
    LET last == calls[r][Len(calls[r])] IN
    IF last.outcome # "ok" THEN last.outcome
    ELSE IF last.api = "api/query" /\ result[r] = NonDict THEN "AttributeError"
    ELSE "none"

\* C5: when the pipeline raises in a shortcut request the answer is HTTP 500
\* with a text field that contains the error message; when it succeeds the
\* answer is HTTP 200 with a success text.
C5_ShortcutPipelineAnswer ==
    \A r \in Req :
        (IsShortcuts(r) /\ Done(r) /\ calls[r] # <<>>) =>
            /\ "text" \in DOMAIN response[r].body
            /\ PipelineExc(r) # "none" =>
                  /\ response[r].status = 500
                  /\ response[r].body["text"] = [fmt |-> "error", msg |-> PipelineExc(r)]
            /\ PipelineExc(r) = "none" =>
                  /\ response[r].status = 200
                  /\ response[r].body["text"].fmt = "saved"

\* witness of C5: a shortcut request whose forward failed with a non-2xx
\* status was answered
C5_Witness ==
    \E r \in Req :
        /\ IsShortcuts(r) /\ Done(r)
        /\ Len(calls[r]) = 2
        /\ calls[r][2].outcome = "HTTPError"

\* the three response shapes of the interface description
ThreeShapes(resp) ==
    \/ resp.status = 400 /\ "error" \in DOMAIN resp.body
    \/ resp.status = 200 /\ "text" \in DOMAIN resp.body
    \/ resp.status = 500 /\ "text" \in DOMAIN resp.body

\* the payload of handler r is JSON text
PayloadParses(r) ==
    /\ "payload" \in DOMAIN request[r].form
    /\ "json" \in DOMAIN request[r].form["payload"]

ShortcutType(r, ty) ==
    /\ "type" \in DOMAIN request[r].form["payload"].json
    /\ request[r].form["payload"].json["type"] = Str(ty)

HasChannelId(r) ==
    /\ "channel" \in DOMAIN request[r].form["payload"].json
    /\ "id" \in DOMAIN request[r].form["payload"].json["channel"]

\* C6 (as claimed): every response of the shortcuts endpoint is HTTP 400
\* with an error field, HTTP 200 with a text field or HTTP 500 with a text
\* field.
C6_ThreeShapes ==
    \A r \in Req : (IsShortcuts(r) /\ Done(r)) => ThreeShapes(response[r])

\* C6 (amended): every response of the shortcuts endpoint is one of the three
\* shapes or HTTP 200 {status: "ok"}, the latter for a payload whose type is
\* not "shortcut"; the only other outcome is an exception that leaves the
\* handler before the pipeline starts, for a payload that is not JSON or a
\* shortcut payload without channel.id.
C6_FourShapes ==
    \A r \in Req :
        (IsShortcuts(r) /\ Done(r)) =>
            \/ ThreeShapes(response[r])
            \/ /\ response[r] = StatusOk
               /\ PayloadParses(r)
               /\ ~ShortcutType(r, "shortcut")
            \/ /\ response[r].status = 500
               /\ "html" \in DOMAIN response[r].body
               /\ calls[r] = <<>>
               /\ \/ request[r].form = [payload |-> NotJson]
                  \/ PayloadParses(r) /\ ShortcutType(r, "shortcut") /\ ~HasChannelId(r)

\* witness of C6: a payload of another type was answered {status: "ok"}
C6_Witness ==
    \E r \in Req :
        /\ IsShortcuts(r) /\ Done(r)
        /\ PayloadParses(r)
        /\ ShortcutType(r, "message_action")
        /\ response[r] = StatusOk

\* C7: a shortcuts request without a payload field, or with an empty one, is
\* answered with HTTP 400 and an error field and causes no outbound call.
C7_NoPayload400 ==
    \A r \in Req :
        (IsShortcuts(r) /\ request[r].form \in {EmptyDict, [payload |-> Str("")]}) =>
            /\ calls[r] = <<>>
            /\ kaPosts = EmptyBag
            /\ pc[r] \in {"recv", "done"}
            /\ Done(r) => (response[r].status = 400 /\ "error" \in DOMAIN response[r].body)

\* witness of C7: a request with an empty payload field was answered
C7_Witness ==
    \E r \in Req :
        /\ IsShortcuts(r) /\ Done(r)
        /\ request[r].form = [payload |-> Str("")]

\* every delivery is a triggering one, is finished and had its fetch succeed
AllFetched ==
    \A r \in Active :
        /\ EventDelivery(r) /\ TriggeringEvent(request[r].json) /\ Done(r)
        /\ CallsTo(r, "conversations.replies") = {1}
        /\ calls[r][1].outcome = "ok"

\* C8: when k deliveries of one triggering event are handled, in any
\* interleaving, and every fetch succeeds, exactly k forward calls reach the
\* Knowledge Agent for that channel and thread, one per delivery, each with
\* the body built from that delivery's own fetch; at any moment the number of
\* POSTs equals the number of deliveries that have forwarded.
C8_NoDeduplication ==
    /\ BagCardinality(kaPosts) = Cardinality({r \in Req : CallsTo(r, "api/query") # {}})
    /\ AllFetched =>
          LET e == request[1].json["event"]
              key == <<ExpectedChannel(e), ExpectedThread(e)>>
          IN  /\ CopiesIn(key, kaPosts) = Cardinality(Active)
              /\ \A r \in Active :
                    /\ CallsTo(r, "api/query") = {2}
                    /\ calls[r][2].json = Payload(thread_data[r])
                    /\ thread_data[r].channel_id = ExpectedChannel(e)
                    /\ thread_data[r].thread_ts = ExpectedThread(e)

\* witness of C8: at least two deliveries of one event were all forwarded
C8_Witness ==
    /\ Cardinality(Active) >= 2
    /\ AllFetched
    /\ BagCardinality(kaPosts) = Cardinality(Active)

\* the arguments fetch_thread was called with by handler r
FetchArgs(r) == <<channel_id[r], thread_ts[r]>>

\* C9: fetch_thread, given N raw messages, returns N messages, the i-th
\* built from the i-th raw message alone: user, text, ts and type are copied
\* and a missing user, text or type becomes "unknown", "" and "message";
\* thread_ts and channel_id of the result equal the arguments.
C9_FetchThreadShape ==
    \A r \in Req :
        thread_data[r] # Unset =>
            LET td == thread_data[r]
                m == td.messages
            IN  /\ Len(m) = Len(platform)
                /\ td.channel_id = FetchArgs(r)[1]
                /\ td.thread_ts = FetchArgs(r)[2]
                /\ \A i \in 1..Len(platform) :
                      LET raw == platform[i] IN
                      /\ DOMAIN m[i] = {"user", "text", "ts", "type"}
                      /\ m[i].user = (IF "user" \in DOMAIN raw THEN raw.user ELSE "unknown")
                      /\ m[i].text = (IF "text" \in DOMAIN raw THEN raw.text ELSE "")
                      /\ m[i].type = (IF "type" \in DOMAIN raw THEN raw.type ELSE "message")
                      /\ "ts" \in DOMAIN raw => m[i].ts = raw.ts

\* witness of C9: a thread of two different raw messages, the first without
\* a user, was fetched
C9_Witness ==
    \E r \in Req :
        /\ thread_data[r] # Unset
        /\ Len(platform) = 2
        /\ platform[1] # platform[2]
        /\ "user" \notin DOMAIN platform[1]

\* C10: the outbound calls of a triggering events request come in the order
\* fetch, forward, confirmation, each only after the one before returned
\* successfully: nothing follows a failed fetch, no confirmation follows a
\* failed forward, and a confirmation is posted only for the thread whose
\* forward succeeded.
C10_CallOrder ==
    \A r \in Req :
        IsEvents(r) =>
            LET c == calls[r] IN
            /\ Len(c) <= 3
            /\ Len(c) >= 1 => c[1].api = "conversations.replies"
            /\ Len(c) >= 2 => (c[2].api = "api/query" /\ c[1].outcome = "ok")
            /\ Len(c) >= 3 =>
                  /\ c[3].api = "chat.postMessage"
                  /\ c[2].outcome = "ok"
                  /\ result[r] \in KaResults
                  /\ c[3].channel = c[2].json["channel_id"]
                  /\ c[3].thread_ts = c[2].json["thread_ts"]
            /\ (Len(c) >= 1 /\ c[Len(c)].outcome # "ok") => Done(r)

\* witness of C10: a request made all three calls after another outcome was
\* possible, here with a confirmation that itself failed
C10_Witness ==
    \E r \in Req :
        /\ IsEvents(r) /\ Done(r)
        /\ Len(calls[r]) = 3
        /\ calls[r][3].outcome = "SlackApiError"
====
